---- MODULE Spec2Model ----
(***************************************************************************)
(* Model of the two batch scripts of the repository:                       *)
(*   scripts/segmentation_script.py   colour-threshold lane/road masks     *)
(*   scripts/yolo_to_bdd annotations.py   YOLO .txt -> BDD100K .json        *)
(*                                                                         *)
(* Images are sequences of rows, a row is a sequence of pixels, a pixel is *)
(* a triple of channel values.  A mask is a sequence of rows of 0 / 255.   *)
(* File names are sequences of character codes, so that sorting and the    *)
(* "*.jpg" pattern are computed on the characters.                         *)
(***************************************************************************)
EXTENDS Integers, Sequences, FiniteSets, TLC

VARIABLES
    \* ---- segmentation_script.py : main() / process_image() ----
    pc,            \* position of main() / process_image()
    status,        \* value returned by main() (NoStatus until it returns)
    inputExists,   \* INPUT_DIR.exists()
    inputTree,     \* files under INPUT_DIR: relative path -> decoded content
    outputDir,     \* state of the path "output"
    lanesDir,      \* state of the path "output/lanes"
    roadsDir,      \* state of the path "output/roads"
    lanesFiles,    \* files in output/lanes: name -> content
    roadsFiles,    \* files in output/roads: name -> content
    images,        \* local `images` of main()
    idx,           \* position of the for loop of main()
    img,           \* local `img` of process_image()
    lane_out,      \* local `lane_out` of process_image()
    road_out,      \* local `road_out` of process_image()
    trace,         \* calls, file operations and prints, in program order
    \* ---- segmentation_script.py : the pure functions, run on their own ----
    fpc,           \* position of the function under evaluation
    hsv_img,       \* argument of make_mask
    lower,         \* argument of make_mask
    upper,         \* argument of make_mask
    raw,           \* local `raw` of make_mask
    opened,        \* local `opened` of make_mask
    closed,        \* local `closed` of make_mask
    mask,          \* argument of save_mask_as_color
    color,         \* argument of save_mask_as_color
    out,           \* result of save_mask_as_color
    \* ---- yolo_to_bdd annotations.py : convert_yolo_to_bdd_frames() ----
    ypc,           \* position of convert_yolo_to_bdd_frames()
    labelsExists,  \* whether INPUT_DIR (labels) exists
    labelFiles,    \* files of the labels directory: file name -> lines
    imageFiles,    \* files of IMAGE_DIR: file name -> "ok" | "corrupt"
    annotation_files, \* local `annotation_files`
    yidx,          \* position of the for loop
    jsonFiles      \* files written to OUTPUT_DIR: file name -> objects list

driverVars == <<pc, status, inputExists, inputTree, outputDir, lanesDir, roadsDir,
                lanesFiles, roadsFiles, images, idx, img, lane_out, road_out, trace>>
pureVars   == <<fpc, hsv_img, lower, upper, raw, opened, closed, mask, color, out>>
yoloVars   == <<ypc, labelsExists, labelFiles, imageFiles, annotation_files, yidx,
                jsonFiles>>
vars       == <<driverVars, pureVars, yoloVars>>

---------------------------------------------------------------------------
(* Bounds of the model *)

\* largest number of ".jpg" entries directly inside the input directory
MaxFiles == 2
\* largest mask height and width explored for the morphology and the painter
MaxH == 3
MaxW == 3
\* largest channel value explored for the threshold test
MaxChan == 1
\* largest number of lines of an annotation file
MaxLines == 3

---------------------------------------------------------------------------
(* Generic helpers *)

Min(a, b) == IF a < b THEN a ELSE b
Max(a, b) == IF a > b THEN a ELSE b
Min3(a, b, c) == Min(a, Min(b, c))
Max3(a, b, c) == Max(a, Max(b, c))

\* the empty finite map
EmptyMap == [x \in {} |-> 0]

\* map m with key k set to v
Put(m, k, v) == [x \in (DOMAIN m) \cup {k} |-> IF x = k THEN v ELSE m[x]]

\* the sequences that list every element of S exactly once
Orderings(S) ==
    {s \in [1..Cardinality(S) -> S] : \A i, j \in DOMAIN s : s[i] = s[j] => i = j}

\* s is an initial part of t
IsPrefix(s, t) == Len(s) <= Len(t) /\ \A i \in 1..Len(s) : s[i] = t[i]

\* Python's `None`, where an image is expected
None == <<>>

Height(m) == Len(m)
Width(m)  == IF Len(m) = 0 THEN 0 ELSE Len(m[1])

---------------------------------------------------------------------------
(* segmentation_script.py : constants *)

WHITE == <<255, 255, 255>>
GREY  == <<128, 128, 128>>
BLACK == <<0, 0, 0>>

LANE_LOWER == <<20, 40, 120>>
LANE_UPPER == <<35, 255, 255>>
ROAD_LOWER == <<125, 40, 120>>
ROAD_UPPER == <<160, 255, 255>>

\* cv2.getStructuringElement(MORPH_ELLIPSE, (3, 3)): for a 3x3 ellipse the
\* rows are 010 / 111 / 010, given here as (row, column) offsets from the
\* anchor, which is the centre.
KERNEL == {<<-1, 0>>, <<0, -1>>, <<0, 0>>, <<0, 1>>, <<1, 0>>}

---------------------------------------------------------------------------
(* segmentation_script.py : the pure functions *)

\* rounding of a positive quotient n / d to the nearest integer
RoundDiv(n, d) == (2 * n + d) \div (2 * d)

\* cv2.cvtColor(img, COLOR_BGR2HSV) on 8-bit pixels: fixed point with a
\* shift of 12, H in [0,179], S and V in [0,255].
PixelBGR2HSV(px) ==
    LET b == px[1]
        g == px[2]
        r == px[3]
        v == Max3(b, g, r)
        diff == v - Min3(b, g, r)
        sdiv == IF v = 0 THEN 0 ELSE RoundDiv(255 * 4096, v)
        hdiv == IF diff = 0 THEN 0 ELSE RoundDiv(180 * 4096, 6 * diff)
        h0 == IF v = r THEN g - b
              ELSE IF v = g THEN b - r + 2 * diff
              ELSE r - g + 4 * diff
        h1 == (h0 * hdiv + 2048) \div 4096
        h == IF h1 < 0 THEN h1 + 180 ELSE h1
        s == (diff * sdiv + 2048) \div 4096
    IN  <<h, s, v>>

BGR2HSV(image) ==
    [r \in 1..Height(image) |-> [c \in 1..Width(image) |-> PixelBGR2HSV(image[r][c])]]

\* variant: the bounds taken as exclusive
PixelInRangeExclusive(px, lo, up) ==
    \A ch \in 1..3 : lo[ch] < px[ch] /\ px[ch] < up[ch]

\* the closed-box test of cv2.inRange on one pixel
PixelInRange(px, lo, up) ==
    \A ch \in 1..3 : lo[ch] <= px[ch] /\ px[ch] <= up[ch]

\* cv2.inRange(hsv_img, lower, upper)
InRange(image, lo, up) ==
    [r \in 1..Height(image) |->
        [c \in 1..Width(image) |->
            IF PixelInRange(image[r][c], lo, up) THEN 255 ELSE 0]]

\* the pixels of the kernel placed at (r, c) that fall inside the h x w grid
Neighbours(h, w, r, c) ==
    {p \in {<<r + k[1], c + k[2]>> : k \in KERNEL} :
        p[1] \in 1..h /\ p[2] \in 1..w}

\* cv2.erode with the default border: pixels outside the image never lower
\* the minimum
Erode(m) ==
    [r \in 1..Height(m) |->
        [c \in 1..Width(m) |->
            IF \A p \in Neighbours(Height(m), Width(m), r, c) : m[p[1]][p[2]] = 255
            THEN 255 ELSE 0]]

\* cv2.dilate with the default border: pixels outside the image never raise
\* the maximum
Dilate(m) ==
    [r \in 1..Height(m) |->
        [c \in 1..Width(m) |->
            IF \E p \in Neighbours(Height(m), Width(m), r, c) : m[p[1]][p[2]] = 255
            THEN 255 ELSE 0]]

\* variant: MORPH_CLOSE passed where MORPH_OPEN is meant
MorphOpenAsClose(m) == Erode(Dilate(m))

\* cv2.morphologyEx(raw, MORPH_OPEN, KERNEL, iterations=1)
MorphOpen(m) == Dilate(Erode(m))

\* cv2.morphologyEx(opened, MORPH_CLOSE, KERNEL, iterations=1)
MorphClose(m) == Erode(Dilate(m))

make_mask(image, lo, up) == MorphClose(MorphOpen(InRange(image, lo, up)))

\* variant: the colour written to the first channel only
save_mask_first_channel(m, col) ==
    [r \in 1..Height(m) |->
        [c \in 1..Width(m) |-> IF m[r][c] > 0 THEN <<col[1], 0, 0>> ELSE BLACK]]

\* out = zeros((h, w, 3)); out[mask > 0] = color
save_mask_as_color(m, col) ==
    [r \in 1..Height(m) |->
        [c \in 1..Width(m) |-> IF m[r][c] > 0 THEN col ELSE BLACK]]

---------------------------------------------------------------------------
(* The three parts of the model, each idle while another one runs *)

NoStatus == -1

DriverIdle ==
    /\ pc = "idle" /\ status = NoStatus /\ inputExists = FALSE
    /\ inputTree = EmptyMap /\ outputDir = "absent" /\ lanesDir = "absent"
    /\ roadsDir = "absent" /\ lanesFiles = EmptyMap /\ roadsFiles = EmptyMap
    /\ images = <<>> /\ idx = 0 /\ img = None /\ lane_out = None
    /\ road_out = None /\ trace = <<>>

PureIdle ==
    /\ fpc = "idle" /\ hsv_img = None /\ lower = BLACK /\ upper = BLACK
    /\ raw = None /\ opened = None /\ closed = None /\ mask = None
    /\ color = BLACK /\ out = None

YoloIdle ==
    /\ ypc = "idle" /\ labelsExists = FALSE /\ labelFiles = EmptyMap
    /\ imageFiles = EmptyMap /\ annotation_files = <<>> /\ yidx = 0
    /\ jsonFiles = EmptyMap

---------------------------------------------------------------------------
(* make_mask and save_mask_as_color evaluated on their own *)

\* every h x w grid over the values of V
Grids(h, w, V) == [1..h -> [1..w -> V]]

\* every binary mask of at most MaxH x MaxW pixels
Masks == UNION {Grids(h, w, {0, 255}) : h \in 1..MaxH, w \in 1..MaxW}

\* every triple of channel values up to MaxChan
Triples == [1..3 -> 0..MaxChan]

\* converted images of one or two pixels
SmallImages == Grids(1, 1, Triples) \cup Grids(1, 2, Triples)

\* output colours: the two the script uses, black, and one with three
\* different channels
Colors == {WHITE, GREY, BLACK, <<0, 128, 255>>}

\* raw = cv2.inRange(hsv_img, lower, upper)
InRangeStep ==
    /\ fpc = "inRange"
    /\ raw' = InRange(hsv_img, lower, upper)
    /\ fpc' = "open"
    /\ UNCHANGED <<hsv_img, lower, upper, opened, closed, mask, color, out>>
    /\ UNCHANGED <<driverVars, yoloVars>>

\* opened = cv2.morphologyEx(raw, cv2.MORPH_OPEN, KERNEL, iterations=1)
OpenStep ==
    /\ fpc = "open"
    /\ opened' = MorphOpen(raw)
    /\ fpc' = "close"
    /\ UNCHANGED <<hsv_img, lower, upper, raw, closed, mask, color, out>>
    /\ UNCHANGED <<driverVars, yoloVars>>

\* closed = cv2.morphologyEx(opened, cv2.MORPH_CLOSE, KERNEL, iterations=1)
CloseStep ==
    /\ fpc = "close"
    /\ closed' = MorphClose(opened)
    /\ fpc' = "return"
    /\ UNCHANGED <<hsv_img, lower, upper, raw, opened, mask, color, out>>
    /\ UNCHANGED <<driverVars, yoloVars>>

\* save_mask_as_color(mask, color)
PaintStep ==
    /\ fpc = "paint"
    /\ out' = save_mask_as_color(mask, color)
    /\ fpc' = "return"
    /\ UNCHANGED <<hsv_img, lower, upper, raw, opened, closed, mask, color>>
    /\ UNCHANGED <<driverVars, yoloVars>>

\* make_mask called on any small converted image with any range
InitInRange ==
    /\ DriverIdle /\ YoloIdle
    /\ fpc = "inRange"
    /\ hsv_img \in SmallImages
    /\ lower \in Triples
    /\ upper \in Triples
    /\ raw = None /\ opened = None /\ closed = None
    /\ mask = None /\ color = BLACK /\ out = None

NextInRange == InRangeStep \/ OpenStep \/ CloseStep

SpecInRange == InitInRange /\ [][NextInRange]_vars

\* make_mask from the point where cv2.inRange has returned any binary mask
InitMorph ==
    /\ DriverIdle /\ YoloIdle
    /\ fpc = "open"
    /\ hsv_img = None /\ lower = BLACK /\ upper = BLACK
    /\ raw \in Masks
    /\ opened = None /\ closed = None
    /\ mask = None /\ color = BLACK /\ out = None

NextMorph == OpenStep \/ CloseStep

SpecMorph == InitMorph /\ [][NextMorph]_vars

\* save_mask_as_color called on any binary mask with any of the colours
InitPaint ==
    /\ DriverIdle /\ YoloIdle
    /\ fpc = "paint"
    /\ hsv_img = None /\ lower = BLACK /\ upper = BLACK
    /\ raw = None /\ opened = None /\ closed = None
    /\ mask \in Masks
    /\ color \in Colors
    /\ out = None

NextPaint == PaintStep

SpecPaint == InitPaint /\ [][NextPaint]_vars

---------------------------------------------------------------------------
(* Properties of make_mask and save_mask_as_color *)

\* the (row, column) positions of a grid
Positions(m) == {<<r, c>> : r \in 1..Height(m), c \in 1..Width(m)}

\* the positions where a mask is on
OnPixels(m) == {p \in Positions(m) : m[p[1]][p[2]] = 255}

\* every row of the grid m has the width of its first row
Rectangular(m) == \A r \in 1..Height(m) : Len(m[r]) = Width(m)

SameShape(a, b) ==
    /\ Height(a) = Height(b) /\ Width(a) = Width(b)
    /\ Rectangular(a) /\ Rectangular(b)

\* C6: once cv2.inRange has returned, the pre-morphology mask has the shape
\* of the converted image, every pixel of it is 255 or 0, and it is 255
\* exactly where each of the three channel values v of the image satisfies
\* lower <= v <= upper for its channel, both bounds included.
C6_InRangeClosedBox ==
    fpc \in {"open", "close", "return"} /\ hsv_img # None =>
        /\ SameShape(raw, hsv_img)
        /\ \A p \in Positions(hsv_img) :
            LET px == hsv_img[p[1]][p[2]]
                inside == /\ lower[1] <= px[1] /\ px[1] <= upper[1]
                          /\ lower[2] <= px[2] /\ px[2] <= upper[2]
                          /\ lower[3] <= px[3] /\ px[3] <= upper[3]
            IN  /\ raw[p[1]][p[2]] \in {0, 255}
                /\ raw[p[1]][p[2]] = 255 <=> inside

\* C6 witness: a two-pixel image whose first pixel sits on the lower bound in
\* one channel and on the upper bound in another and is on, and whose second
\* pixel is off.
C6_Witness ==
    /\ fpc = "open" /\ Width(hsv_img) = 2
    /\ hsv_img[1][1][1] = lower[1] /\ lower[1] < upper[1]
    /\ hsv_img[1][1][2] = upper[2] /\ lower[2] < upper[2]
    /\ raw[1][1] = 255 /\ raw[1][2] = 0

\* C7: save_mask_as_color returns an image of the height and width of the
\* mask in which a pixel is the given colour on all three channels where the
\* mask is on and black where it is off; no other pixel value occurs.
C7_PaintTwoValues ==
    fpc = "return" /\ mask # None =>
        /\ SameShape(out, mask)
        /\ \A p \in Positions(mask) :
            /\ out[p[1]][p[2]] \in {color, BLACK}
            /\ p \in OnPixels(mask) => out[p[1]][p[2]] = color
            /\ p \notin OnPixels(mask) => out[p[1]][p[2]] = BLACK

\* C7 witness: a painted mask with on and off pixels and a colour whose
\* three channels differ.
C7_Witness ==
    /\ fpc = "return" /\ mask # None
    /\ color = <<0, 128, 255>>
    /\ OnPixels(mask) # {} /\ OnPixels(mask) # Positions(mask)
    /\ \E p \in OnPixels(mask) : out[p[1]][p[2]] = color

\* two positions that touch, diagonals included
Adjacent(p, q) ==
    /\ p[1] - q[1] \in {-1, 0, 1}
    /\ p[2] - q[2] \in {-1, 0, 1}

RECURSIVE Grow(_, _)
\* the positions of On connected to the set S
Grow(S, On) ==
    LET N == {q \in On : \E p \in S : Adjacent(p, q)}
    IN  IF N \subseteq S THEN S ELSE Grow(S \cup N, On)

\* the connected component of the on-pixel p in the mask m
Component(m, p) == Grow({p}, OnPixels(m))

\* the opening ran once on raw, then the closing once on its result
OpenThenClose ==
    /\ fpc \in {"close", "return"} => opened = Dilate(Erode(raw))
    /\ fpc = "return" => closed = Erode(Dilate(opened))

\* opening adds no on-pixel, closing removes none
ShrinkGrow ==
    /\ fpc \in {"close", "return"} =>
        SameShape(opened, raw) /\ OnPixels(opened) \subseteq OnPixels(raw)
    /\ fpc = "return" =>
        SameShape(closed, opened) /\ OnPixels(opened) \subseteq OnPixels(closed)

\* C8 as stated: ... and every pixel that is on after the opening belongs to
\* a connected component of the raw mask that has at least as many pixels as
\* the structuring element.
C8_ComponentAtLeastKernel ==
    /\ OpenThenClose
    /\ ShrinkGrow
    /\ fpc \in {"close", "return"} =>
        \A p \in OnPixels(opened) :
            Cardinality(Component(raw, p)) >= Cardinality(KERNEL)

\* C8 amended: in make_mask the raw mask is opened once and the result is
\* closed once with the same element; the opening adds no on-pixel, every
\* pixel that is on after the opening is covered by the structuring element
\* placed at some pixel of the image such that all of the element's pixels
\* inside the image are on in the raw mask (pixels outside the image do not
\* count), and the closing removes no pixel that was on after the opening.
C8_OpenCloseLaws ==
    /\ OpenThenClose
    /\ ShrinkGrow
    /\ fpc \in {"close", "return"} =>
        \A p \in OnPixels(opened) :
            \E q \in Positions(raw) :
                LET N == Neighbours(Height(raw), Width(raw), q[1], q[2])
                IN  p \in N /\ N \subseteq OnPixels(raw)

\* C8 witness: make_mask has returned, the opening removed a pixel and kept
\* another, and a kept pixel lies in a component smaller than the element.
C8_Witness ==
    /\ fpc = "return" /\ raw # None /\ hsv_img = None
    /\ OnPixels(opened) # OnPixels(raw)
    /\ \E p \in OnPixels(opened) :
        Cardinality(Component(raw, p)) < Cardinality(KERNEL)

---------------------------------------------------------------------------
(* segmentation_script.py : paths and the file system *)

\* "input", "output", "output/lanes", "output/roads" as paths: a path is a
\* sequence of names, a name a sequence of character codes
INPUT_DIR  == << <<105, 110, 112, 117, 116>> >>
OUTPUT_DIR == << <<111, 117, 116, 112, 117, 116>> >>
LANES_DIR  == OUTPUT_DIR \o << <<108, 97, 110, 101, 115>> >>
ROADS_DIR  == OUTPUT_DIR \o << <<114, 111, 97, 100, 115>> >>

\* ".jpg"
DotJpg == <<46, 106, 112, 103>>

\* Path.name: the last component
Name(path) == path[Len(path)]

\* the path of a file relative to INPUT_DIR
RelPath(path) == SubSeq(path, Len(INPUT_DIR) + 1, Len(path))

\* order of two strings by character code, a proper prefix first
NameLess(s, t) ==
    \E k \in 1..(Min(Len(s), Len(t)) + 1) :
        /\ \A i \in 1..(k - 1) : s[i] = t[i]
        /\ \/ k > Len(s) /\ k <= Len(t)
           \/ k <= Len(s) /\ k <= Len(t) /\ s[k] < t[k]

\* order of two paths: component by component, as Path.__lt__ on POSIX
PathLess(p, q) ==
    \E k \in 1..(Min(Len(p), Len(q)) + 1) :
        /\ \A i \in 1..(k - 1) : p[i] = q[i]
        /\ \/ k > Len(p) /\ k <= Len(q)
           \/ k <= Len(p) /\ k <= Len(q) /\ NameLess(p[k], q[k])

RECURSIVE InsertSorted(_, _)
InsertSorted(s, x) ==
    IF s = <<>> THEN <<x>>
    ELSE IF PathLess(x, Head(s)) THEN <<x>> \o s
    ELSE <<Head(s)>> \o InsertSorted(Tail(s), x)

RECURSIVE SortFrom(_, _)
SortFrom(acc, s) ==
    IF s = <<>> THEN acc ELSE SortFrom(InsertSorted(acc, Head(s)), Tail(s))

\* variant: the listing used as the file system returned it
unsorted(s) == s

\* sorted(...) of a list of paths
sorted(s) == SortFrom(<<>>, s)

\* variant: the pattern "*" in place of "*.jpg"
MatchesAnyName(name) == TRUE

\* whether a name matches the pattern "*.jpg"
MatchesJpg(name) ==
    /\ Len(name) >= Len(DotJpg)
    /\ SubSeq(name, Len(name) - Len(DotJpg) + 1, Len(name)) = DotJpg

\* INPUT_DIR.glob("*.jpg"): the entries directly inside the directory whose
\* name matches, as paths that start with INPUT_DIR
GlobJpg(tree) ==
    {INPUT_DIR \o rel : rel \in {r \in DOMAIN tree : Len(r) = 1 /\ MatchesJpg(r[1])}}

\* cv2.imread(path): the decoded image, or None when the file cannot be read
imread(tree, path) ==
    IF RelPath(path) \in DOMAIN tree THEN tree[RelPath(path)] ELSE None

\* one entry of the trace
Event(op, path) == [op |-> op, path |-> path]

---------------------------------------------------------------------------
(* segmentation_script.py : the inputs explored *)

\* pixels in BGR order
Yellow  == <<0, 255, 255>>
Magenta == <<255, 0, 255>>

\* a single yellow pixel
IMG_A == << <<Yellow>> >>
\* 3x3: a magenta cross on white, with one yellow pixel in a corner
IMG_B == << <<Yellow, Magenta, WHITE>>,
            <<Magenta, Magenta, Magenta>>,
            <<WHITE, Magenta, WHITE>> >>
\* 2x2: black, with one magenta pixel
IMG_C == << <<Magenta, BLACK>>, <<BLACK, BLACK>> >>

SampleImages == {IMG_A, IMG_B, IMG_C}

\* what a file of the input directory decodes to
Contents == {None} \cup SampleImages

\* "B.jpg", "a.jpg", "ab.jpg", "b.jpg"
JpgNames == { <<66>> \o DotJpg, <<97>> \o DotJpg, <<97, 98>> \o DotJpg,
              <<98>> \o DotJpg }

\* entries that "*.jpg" must not pick up: "a.png" directly inside, and
\* "d/a.jpg" one directory down
OtherPaths == { << <<97, 46, 112, 110, 103>> >>, << <<100>>, <<97>> \o DotJpg >> }

\* the trees with at most MaxFiles .jpg files directly inside
InputTrees ==
    UNION { { [p \in DOMAIN f \cup O |-> IF p \in O THEN IMG_A ELSE f[p]] :
                f \in [ {<<n>> : n \in J} -> Contents ] } :
              J \in {K \in SUBSET JpgNames : Cardinality(K) <= MaxFiles},
              O \in SUBSET OtherPaths }

\* a file left in an output directory by an earlier run
StaleFiles == [n \in {<<97>> \o DotJpg} |-> << <<GREY>> >>]

DirStates == {"absent", "dir", "file"}

---------------------------------------------------------------------------
(* segmentation_script.py : main() and process_image() *)

\* variant: the output directories are not created
MainEnsureDirsSkipped ==
    /\ pc = "start"
    /\ pc' = "check_input"
    /\ UNCHANGED <<status, inputExists, inputTree, outputDir, lanesDir, roadsDir,
                   lanesFiles, roadsFiles, images, idx, img, lane_out, road_out,
                   trace>>
    /\ UNCHANGED <<pureVars, yoloVars>>

\* ensure_dirs(): mkdir(parents=True, exist_ok=True) of output/lanes, then of
\* output/roads; a path that exists and is no directory makes mkdir raise
MainEnsureDirs ==
    /\ pc = "start"
    /\ IF outputDir = "file" \/ lanesDir = "file"
       THEN /\ pc' = "raised"
            /\ UNCHANGED <<outputDir, lanesDir, roadsDir>>
       ELSE /\ outputDir' = "dir"
            /\ lanesDir' = "dir"
            /\ IF roadsDir = "file"
               THEN pc' = "raised" /\ UNCHANGED roadsDir
               ELSE pc' = "check_input" /\ roadsDir' = "dir"
    /\ trace' = Append(trace, Event("ensure_dirs", OUTPUT_DIR))
    /\ UNCHANGED <<status, inputExists, inputTree, lanesFiles, roadsFiles, images,
                   idx, img, lane_out, road_out>>
    /\ UNCHANGED <<pureVars, yoloVars>>

\* variant: a missing input directory is treated as an empty one
MainCheckInputLenient ==
    /\ pc = "check_input"
    /\ pc' = "glob"
    /\ UNCHANGED <<status, inputExists, inputTree, outputDir, lanesDir, roadsDir,
                   lanesFiles, roadsFiles, images, idx, img, lane_out, road_out,
                   trace>>
    /\ UNCHANGED <<pureVars, yoloVars>>

\* if not INPUT_DIR.exists(): print(...); return 1
MainCheckInput ==
    /\ pc = "check_input"
    /\ IF ~inputExists
       THEN /\ trace' = Append(trace, Event("print_error", INPUT_DIR))
            /\ status' = 1
            /\ pc' = "returned"
       ELSE /\ pc' = "glob"
            /\ UNCHANGED <<status, trace>>
    /\ UNCHANGED <<inputExists, inputTree, outputDir, lanesDir, roadsDir,
                   lanesFiles, roadsFiles, images, idx, img, lane_out, road_out>>
    /\ UNCHANGED <<pureVars, yoloVars>>

\* images = sorted([p for p in INPUT_DIR.glob("*.jpg")]); the empty case
\* prints and returns 0.  glob yields the entries in any order.
MainGlob ==
    /\ pc = "glob"
    /\ \E listing \in Orderings(GlobJpg(inputTree)) :
        /\ images' = sorted(listing)
        /\ IF images' = <<>>
           THEN /\ trace' = Append(trace, Event("print_no_images", INPUT_DIR))
                /\ status' = 0
                /\ pc' = "returned"
                /\ UNCHANGED idx
           ELSE /\ idx' = 1
                /\ pc' = "loop"
                /\ UNCHANGED <<status, trace>>
    /\ UNCHANGED <<inputExists, inputTree, outputDir, lanesDir, roadsDir,
                   lanesFiles, roadsFiles, img, lane_out, road_out>>
    /\ UNCHANGED <<pureVars, yoloVars>>

\* for img_path in images: process_image(img_path); after the last one
\* print(...) and return 0
MainLoop ==
    /\ pc = "loop"
    /\ IF idx <= Len(images)
       THEN /\ trace' = Append(trace, Event("process_image", images[idx]))
            /\ pc' = "imread"
            /\ UNCHANGED status
       ELSE /\ trace' = Append(trace, Event("print_done", OUTPUT_DIR))
            /\ status' = 0
            /\ pc' = "returned"
    /\ UNCHANGED <<inputExists, inputTree, outputDir, lanesDir, roadsDir,
                   lanesFiles, roadsFiles, images, idx, img, lane_out, road_out>>
    /\ UNCHANGED <<pureVars, yoloVars>>

\* variant: a file that cannot be read ends the batch with status 1
ProcessImreadStrict ==
    /\ pc = "imread"
    /\ LET loaded == imread(inputTree, images[idx])
       IN  IF loaded = None
           THEN /\ trace' = trace \o <<Event("imread", images[idx]),
                                       Event("print_warning", images[idx])>>
                /\ status' = 1
                /\ pc' = "returned"
                /\ UNCHANGED <<img, idx>>
           ELSE /\ trace' = Append(trace, Event("imread", images[idx]))
                /\ img' = loaded
                /\ pc' = "transform"
                /\ UNCHANGED <<idx, status>>
    /\ UNCHANGED <<inputExists, inputTree, outputDir, lanesDir, roadsDir,
                   lanesFiles, roadsFiles, images, lane_out, road_out>>
    /\ UNCHANGED <<pureVars, yoloVars>>

\* img = cv2.imread(...); if img is None: print a warning and return
ProcessImread ==
    /\ pc = "imread"
    /\ LET loaded == imread(inputTree, images[idx])
       IN  IF loaded = None
           THEN /\ trace' = trace \o <<Event("imread", images[idx]),
                                       Event("print_warning", images[idx])>>
                /\ idx' = idx + 1
                /\ pc' = "loop"
                /\ UNCHANGED img
           ELSE /\ trace' = Append(trace, Event("imread", images[idx]))
                /\ img' = loaded
                /\ pc' = "transform"
                /\ UNCHANGED idx
    /\ UNCHANGED <<status, inputExists, inputTree, outputDir, lanesDir, roadsDir,
                   lanesFiles, roadsFiles, images, lane_out, road_out>>
    /\ UNCHANGED <<pureVars, yoloVars>>

\* hsv = cvtColor(img); the lane mask painted white, the road mask grey
ProcessTransform ==
    /\ pc = "transform"
    /\ LET hsv == BGR2HSV(img)
       IN  /\ lane_out' = save_mask_as_color(make_mask(hsv, LANE_LOWER, LANE_UPPER), WHITE)
           /\ road_out' = save_mask_as_color(make_mask(hsv, ROAD_LOWER, ROAD_UPPER), GREY)
    /\ trace' = Append(trace, Event("cvtColor", images[idx]))
    /\ pc' = "write_lanes"
    /\ UNCHANGED <<status, inputExists, inputTree, outputDir, lanesDir, roadsDir,
                   lanesFiles, roadsFiles, images, idx, img>>
    /\ UNCHANGED <<pureVars, yoloVars>>

\* cv2.imwrite(str(LANES_DIR / img_path.name), lane_out)
ProcessWriteLanes ==
    /\ pc = "write_lanes"
    /\ lanesFiles' = Put(lanesFiles, Name(images[idx]), lane_out)
    /\ trace' = Append(trace, Event("imwrite", LANES_DIR \o <<Name(images[idx])>>))
    /\ pc' = "write_roads"
    /\ UNCHANGED <<status, inputExists, inputTree, outputDir, lanesDir, roadsDir,
                   roadsFiles, images, idx, img, lane_out, road_out>>
    /\ UNCHANGED <<pureVars, yoloVars>>

\* variant: the road image written under the lanes directory
ProcessWriteRoadsToLanes ==
    /\ pc = "write_roads"
    /\ lanesFiles' = Put(lanesFiles, Name(images[idx]), road_out)
    /\ trace' = Append(trace, Event("imwrite", LANES_DIR \o <<Name(images[idx])>>))
    /\ idx' = idx + 1
    /\ img' = None /\ lane_out' = None /\ road_out' = None
    /\ pc' = "loop"
    /\ UNCHANGED <<status, inputExists, inputTree, outputDir, lanesDir, roadsDir,
                   roadsFiles, images>>
    /\ UNCHANGED <<pureVars, yoloVars>>

\* cv2.imwrite(str(ROADS_DIR / img_path.name), road_out); process_image returns
ProcessWriteRoads ==
    /\ pc = "write_roads"
    /\ roadsFiles' = Put(roadsFiles, Name(images[idx]), road_out)
    /\ trace' = Append(trace, Event("imwrite", ROADS_DIR \o <<Name(images[idx])>>))
    /\ idx' = idx + 1
    /\ img' = None /\ lane_out' = None /\ road_out' = None
    /\ pc' = "loop"
    /\ UNCHANGED <<status, inputExists, inputTree, outputDir, lanesDir, roadsDir,
                   lanesFiles, images>>
    /\ UNCHANGED <<pureVars, yoloVars>>

\* the state in which main() is called: any input tree, any state of the
\* output paths, output directories that exist possibly holding an old file
Init ==
    /\ PureIdle /\ YoloIdle
    /\ pc = "start" /\ status = NoStatus
    /\ inputExists \in BOOLEAN
    /\ inputTree \in (IF inputExists THEN InputTrees ELSE {EmptyMap})
    /\ outputDir \in DirStates
    /\ lanesDir \in (IF outputDir = "dir" THEN DirStates ELSE {"absent"})
    /\ roadsDir \in (IF outputDir = "dir" THEN DirStates ELSE {"absent"})
    /\ lanesFiles \in (IF lanesDir = "dir" THEN {EmptyMap, StaleFiles} ELSE {EmptyMap})
    /\ roadsFiles \in (IF roadsDir = "dir" THEN {EmptyMap, StaleFiles} ELSE {EmptyMap})
    /\ images = <<>> /\ idx = 0
    /\ img = None /\ lane_out = None /\ road_out = None
    /\ trace = <<>>

Next ==
    \/ MainEnsureDirs
    \/ MainCheckInput
    \/ MainGlob
    \/ MainLoop
    \/ ProcessImread
    \/ ProcessTransform
    \/ ProcessWriteLanes
    \/ ProcessWriteRoads

Spec == Init /\ [][Next]_vars

---------------------------------------------------------------------------
(* Properties of main() and process_image() *)

\* the entries of the trace made by the operation op
Ops(op) == SelectSeq(trace, LAMBDA e : e.op = op)

\* the paths of a sequence of trace entries
PathsOf(es) == {es[i].path : i \in 1..Len(es)}

\* a file name whose last four characters are ".jpg"
IsJpgName(n) ==
    /\ Len(n) >= 4
    /\ n[Len(n) - 3] = 46 /\ n[Len(n) - 2] = 106
    /\ n[Len(n) - 1] = 112 /\ n[Len(n)] = 103

\* the .jpg files directly inside the input directory
DirectJpgs ==
    {INPUT_DIR \o r : r \in {q \in DOMAIN inputTree : Len(q) = 1 /\ IsJpgName(q[1])}}

Loadable   == {p \in DirectJpgs : inputTree[RelPath(p)] # None}
Unreadable == {p \in DirectJpgs : inputTree[RelPath(p)] = None}

\* the two output images of one source image
LaneImage(image) ==
    save_mask_as_color(make_mask(BGR2HSV(image), LANE_LOWER, LANE_UPPER), WHITE)
RoadImage(image) ==
    save_mask_as_color(make_mask(BGR2HSV(image), ROAD_LOWER, ROAD_UPPER), GREY)

\* C1: main() returns a non-zero status exactly when the input directory
\* does not exist, and in that case process_image is never called and
\* nothing is written under output/lanes or output/roads.
C1_MissingInputFails ==
    /\ pc = "returned" => (status # 0 <=> ~inputExists)
    /\ pc # "idle" /\ ~inputExists =>
        /\ Ops("process_image") = <<>>
        /\ Ops("imread") = <<>>
        /\ Ops("imwrite") = <<>>
        /\ lanesFiles \in {EmptyMap, StaleFiles}
        /\ roadsFiles \in {EmptyMap, StaleFiles}

\* C1 witness: main() has returned 1 for a missing input directory.
C1_Witness ==
    /\ pc = "returned" /\ ~inputExists /\ status = 1
    /\ Ops("print_error") # <<>>

\* C2: with N loadable and any number of unreadable .jpg files, main()
\* returns 0, the run makes exactly 2*N writes, one lanes file and one roads
\* file per loadable image, prints exactly one warning per unreadable file,
\* and each output is the image computed from its own source file alone.
C2_UnreadableSkipped ==
    /\ pc = "raised" => Ops("process_image") = <<>>
    /\ pc = "returned" /\ inputExists =>
        /\ status = 0
        /\ Len(Ops("imwrite")) = 2 * Cardinality(Loadable)
        /\ PathsOf(Ops("imwrite")) =
              {LANES_DIR \o <<Name(p)>> : p \in Loadable}
              \cup {ROADS_DIR \o <<Name(p)>> : p \in Loadable}
        /\ Len(Ops("print_warning")) = Cardinality(Unreadable)
        /\ PathsOf(Ops("print_warning")) = Unreadable
        /\ \A p \in Loadable :
            /\ Name(p) \in DOMAIN lanesFiles
            /\ Name(p) \in DOMAIN roadsFiles
            /\ lanesFiles[Name(p)] = LaneImage(inputTree[RelPath(p)])
            /\ roadsFiles[Name(p)] = RoadImage(inputTree[RelPath(p)])

\* C2 witness: a finished run over one unreadable file and one loadable
\* yellow pixel, whose lanes output is white and whose roads output is black.
C2_Witness ==
    /\ pc = "returned" /\ status = 0
    /\ Cardinality(Unreadable) = 1 /\ Cardinality(Loadable) = 1
    /\ Len(Ops("imwrite")) = 2 /\ Len(Ops("print_warning")) = 1
    /\ \E p \in Loadable :
        /\ inputTree[RelPath(p)] = IMG_A
        /\ lanesFiles[Name(p)] = << <<WHITE>> >>
        /\ roadsFiles[Name(p)] = << <<BLACK>> >>

\* the positions of the trace where a call of process_image starts
CallStarts == {i \in 1..Len(trace) : trace[i].op = "process_image"}

\* the last entry of the trace that belongs to the call started at i
CallEnd(i) ==
    IF \E j \in CallStarts : j > i
    THEN (CHOOSE j \in CallStarts : j > i /\ \A k \in CallStarts : k > i => j <= k) - 1
    ELSE Len(trace)

\* the call started at i has returned
CallReturned(i) ==
    \/ \E j \in CallStarts : j > i
    \/ pc \in {"loop", "returned"}

\* the writes made by the call started at i, in order
WritesOf(i) ==
    SelectSeq(SubSeq(trace, i, CallEnd(i)), LAMBDA e : e.op = "imwrite")

\* C3: a call of process_image(img_path) that loads the image makes exactly
\* two writes, to output/lanes/<name> and to output/roads/<name> with <name>
\* the file name of img_path; a call whose load fails makes none.
C3_TwoWritesPerImage ==
    \A i \in CallStarts :
        LET path == trace[i].path
            w == WritesOf(i)
        IN  /\ Len(w) <= 2
            /\ CallReturned(i) =>
                IF imread(inputTree, path) # None
                THEN /\ Len(w) = 2
                     /\ w[1].path = LANES_DIR \o <<Name(path)>>
                     /\ w[2].path = ROADS_DIR \o <<Name(path)>>
                     /\ Name(path) \in DOMAIN lanesFiles
                     /\ Name(path) \in DOMAIN roadsFiles
                ELSE w = <<>>

\* C3 witness: two calls have returned, one made two writes, one made none.
C3_Witness ==
    \E i, j \in CallStarts :
        /\ CallReturned(i) /\ CallReturned(j)
        /\ Len(WritesOf(i)) = 2 /\ Len(WritesOf(j)) = 0

\* C4: when the input directory exists and holds no .jpg file directly
\* inside it, main() returns 0, never calls process_image and writes nothing.
C4_NoImagesSucceeds ==
    pc # "idle" /\ inputExists /\ DirectJpgs = {} =>
        /\ Ops("process_image") = <<>>
        /\ Ops("imwrite") = <<>>
        /\ pc \in {"start", "raised", "check_input", "glob", "returned"}
        /\ pc = "returned" => status = 0 /\ Ops("print_no_images") # <<>>

\* C4 witness: main() has returned 0 over a directory that holds only
\* "a.png" and the sub-directory file "d/a.jpg".
C4_Witness ==
    /\ pc = "returned" /\ inputExists /\ status = 0
    /\ DirectJpgs = {} /\ DOMAIN inputTree = OtherPaths

\* the .jpg files directly inside the input directory, by increasing name
SortedDirectJpgs ==
    CHOOSE s \in Orderings(DirectJpgs) :
        \A i, j \in DOMAIN s : i < j => NameLess(Name(s[i]), Name(s[j]))

\* what one call of process_image does, in order
Block(p) ==
    IF inputTree[RelPath(p)] = None
    THEN <<Event("process_image", p), Event("imread", p), Event("print_warning", p)>>
    ELSE <<Event("process_image", p), Event("imread", p), Event("cvtColor", p),
           Event("imwrite", LANES_DIR \o <<Name(p)>>),
           Event("imwrite", ROADS_DIR \o <<Name(p)>>)>>

RECURSIVE Blocks(_)
Blocks(s) == IF s = <<>> THEN <<>> ELSE Block(Head(s)) \o Blocks(Tail(s))

\* the trace without the steps of main() itself
ProcessTrace ==
    SelectSeq(trace, LAMBDA e :
        e.op \in {"process_image", "imread", "cvtColor", "imwrite", "print_warning"})

\* C5: over an existing input directory process_image is called exactly once
\* per .jpg file directly inside it, by increasing file name, and the load,
\* the transform and the two writes of one image come before the call for
\* the next image.
C5_SortedOneAtATime ==
    pc # "idle" /\ inputExists =>
        /\ IsPrefix(ProcessTrace, Blocks(SortedDirectJpgs))
        /\ pc = "returned" => ProcessTrace = Blocks(SortedDirectJpgs)

\* C5 witness: a finished run over "a.jpg" and "B.jpg", both loadable.
C5_Witness ==
    /\ pc = "returned" /\ inputExists
    /\ Loadable = {INPUT_DIR \o << <<97>> \o DotJpg >>, INPUT_DIR \o << <<66>> \o DotJpg >>}
    /\ Len(Ops("process_image")) = 2
    /\ Ops("process_image")[1].path = INPUT_DIR \o << <<66>> \o DotJpg >>

\* main() is at or past the test of the input directory
PastEnsureDirs ==
    pc \in {"check_input", "glob", "loop", "imread", "transform", "write_lanes",
            "write_roads", "returned"}

\* C9: both output directories exist from the moment main() tests the input
\* directory, so they exist after every run that returns, the failing run
\* and the run without matching files included; and when the directories
\* already exist, ensure_dirs changes neither them nor their files.
C9_OutputDirsFirst ==
    /\ [](PastEnsureDirs => outputDir = "dir" /\ lanesDir = "dir" /\ roadsDir = "dir")
    /\ [][pc = "start" /\ lanesDir = "dir" /\ roadsDir = "dir" =>
            /\ pc' = "check_input"
            /\ UNCHANGED <<outputDir, lanesDir, roadsDir, lanesFiles, roadsFiles>>]_vars

\* C9 witness: the failing run has returned and left both directories, which
\* did not exist before, behind.
C9_Witness ==
    /\ pc = "returned" /\ ~inputExists /\ status = 1
    /\ lanesDir = "dir" /\ roadsDir = "dir"
    /\ trace[1].op = "ensure_dirs"

---------------------------------------------------------------------------
(* yolo_to_bdd annotations.py *)

\* ".jpg"
IMAGE_EXTENSION == <<46, 106, 112, 103>>
\* ".txt" and ".json"
DotTxt  == <<46, 116, 120, 116>>
DotJson == <<46, 106, 115, 111, 110>>

CLASS_MAPPING ==
    [k \in 1..9 |->
        CASE k = 1 -> "person"  [] k = 2 -> "object1" [] k = 3 -> "car"
          [] k = 4 -> "motorcycle" [] k = 5 -> "truck" [] k = 6 -> "bycycle"
          [] k = 7 -> "bus" [] k = 8 -> "object2" [] k = 9 -> "object3"]

\* str.endswith
EndsWith(name, suffix) ==
    /\ Len(name) >= Len(suffix)
    /\ SubSeq(name, Len(name) - Len(suffix) + 1, Len(name)) = suffix

\* os.path.splitext(filename)[0]: the name up to its last dot, where dots
\* that lead the name do not count
SplitextBase(name) ==
    LET dots == {i \in 1..Len(name) : name[i] = 46}
        lead == {i \in dots : \A j \in 1..i : name[j] = 46}
    IN  IF dots \ lead = {} THEN name
        ELSE SubSeq(name, 1, (CHOOSE i \in dots \ lead : \A j \in dots : j <= i) - 1)

\* space, tab, newline, carriage return
IsSpace(c) == c \in {32, 9, 10, 13}
IsDigit(c) == c \in 48..57

RECURSIVE SplitFrom(_, _, _)
SplitFrom(s, cur, acc) ==
    IF s = <<>> THEN (IF cur = <<>> THEN acc ELSE Append(acc, cur))
    ELSE IF IsSpace(Head(s))
         THEN SplitFrom(Tail(s), <<>>, IF cur = <<>> THEN acc ELSE Append(acc, cur))
         ELSE SplitFrom(Tail(s), Append(cur, Head(s)), acc)

\* line.strip().split(): the maximal runs of non-space characters
Split(line) == SplitFrom(line, <<>>, <<>>)

\* the token without a leading sign
Unsigned(tok) == IF tok # <<>> /\ tok[1] \in {43, 45} THEN Tail(tok) ELSE tok

\* int(tok) does not raise ValueError (tokens of digits, sign, dot, letters)
ParsesAsInt(tok) ==
    /\ Unsigned(tok) # <<>>
    /\ \A i \in 1..Len(Unsigned(tok)) : IsDigit(Unsigned(tok)[i])

RECURSIVE DigitsValue(_, _)
DigitsValue(ds, acc) ==
    IF ds = <<>> THEN acc ELSE DigitsValue(Tail(ds), 10 * acc + (Head(ds) - 48))

\* int(tok)
IntValue(tok) ==
    IF tok[1] = 45 THEN 0 - DigitsValue(Unsigned(tok), 0)
    ELSE DigitsValue(Unsigned(tok), 0)

\* float(tok) does not raise ValueError (tokens of digits, sign, dot, letters
\* other than those of "inf", "nan" and exponents)
ParsesAsFloat(tok) ==
    LET body == Unsigned(tok)
        dots == {i \in 1..Len(body) : body[i] = 46}
    IN  /\ Cardinality(dots) <= 1
        /\ \A i \in (1..Len(body)) \ dots : IsDigit(body[i])
        /\ \E i \in 1..Len(body) : IsDigit(body[i])

\* the line passes the three `continue` tests of the inner loop
LineAccepted(line) ==
    LET parts == Split(line)
    IN  /\ Len(parts) = 5
        /\ ParsesAsInt(parts[1])
        /\ \A k \in 2..5 : ParsesAsFloat(parts[k])
        /\ IntValue(parts[1]) \in DOMAIN CLASS_MAPPING

\* the object of an accepted line; of its fields the category and the id are
\* modelled, the attributes are constant and box2d is left out
ObjectDict(line, line_idx) ==
    [category |-> CLASS_MAPPING[IntValue(Split(line)[1])], id |-> line_idx]

RECURSIVE ObjectsDense(_, _, _)
\* variant: the id counts the accepted lines only
ObjectsDense(lines, i, acc) ==
    IF i > Len(lines) THEN acc
    ELSE ObjectsDense(lines, i + 1,
            IF LineAccepted(lines[i])
            THEN Append(acc, ObjectDict(lines[i], Len(acc)))
            ELSE acc)

RECURSIVE ObjectsFrom(_, _, _)
\* for line_idx, line in enumerate(f): ... objects_list.append(object_dict)
ObjectsFrom(lines, i, acc) ==
    IF i > Len(lines) THEN acc
    ELSE ObjectsFrom(lines, i + 1,
            IF LineAccepted(lines[i])
            THEN Append(acc, ObjectDict(lines[i], i - 1))
            ELSE acc)

\* the lines explored
\* "1 0.5 0.5 0.2 0.2\n"
LinePerson == <<49, 32, 48, 46, 53, 32, 48, 46, 53, 32, 48, 46, 50, 32, 48, 46, 50, 10>>
\* " 3\t.5 1 0.25 1.\n"
LineCar == <<32, 51, 9, 46, 53, 32, 49, 32, 48, 46, 50, 53, 32, 49, 46, 10>>
\* "0 0.5 0.5 0.2 0.2\n": class 0 is not in CLASS_MAPPING
LineClass0 == <<48, 32, 48, 46, 53, 32, 48, 46, 53, 32, 48, 46, 50, 32, 48, 46, 50, 10>>
\* "1 0.5 0.5 0.2\n": four fields
LineFour == <<49, 32, 48, 46, 53, 32, 48, 46, 53, 32, 48, 46, 50, 10>>
\* "1.0 0.5 0.5 0.2 0.2\n": the class is no integer literal
LineFloatClass ==
    <<49, 46, 48, 32, 48, 46, 53, 32, 48, 46, 53, 32, 48, 46, 50, 32, 48, 46, 50, 10>>
\* "1 0.5 x 0.2 0.2\n": a coordinate is no float literal
LineBadCoord == <<49, 32, 48, 46, 53, 32, 120, 32, 48, 46, 50, 32, 48, 46, 50, 10>>
\* "\n"
LineBlank == <<10>>
\* "2 0.5 0.5 0.2 0.2 0.9": six fields, no newline
LineSix ==
    <<50, 32, 48, 46, 53, 32, 48, 46, 53, 32, 48, 46, 50, 32, 48, 46, 50, 32, 48, 46, 57>>

SampleLines == {LinePerson, LineCar, LineClass0, LineFour, LineFloatClass,
                LineBadCoord, LineBlank, LineSix}

\* the files of at most MaxLines lines
SampleTexts == UNION {[1..n -> SampleLines] : n \in 0..MaxLines}

\* "a.txt", "b.txt", "a.md"
ATxt == <<97>> \o DotTxt
BTxt == <<98>> \o DotTxt
AMd  == <<97, 46, 109, 100>>

\* label directories: "a.txt" with any text, optionally "b.txt" with one
\* person line, optionally "a.md" with one person line
LabelDirs ==
    { [n \in A \cup B |-> IF n = ATxt THEN ta ELSE <<LinePerson>>] :
        A \in {{}, {ATxt}}, B \in SUBSET {BTxt, AMd}, ta \in SampleTexts }

\* image directories: "a.jpg" absent, unreadable or readable; "b.jpg"
\* readable
ImageDirs ==
    { [n \in A \cup {<<98>> \o IMAGE_EXTENSION} |->
            IF n = <<97>> \o IMAGE_EXTENSION THEN oa ELSE TRUE] :
        A \in {{}, {<<97>> \o IMAGE_EXTENSION}},
        oa \in BOOLEAN }

\* the start of the function: os.listdir(INPUT_DIR) filtered on ".txt", with
\* the two early returns; listdir gives the names in any order
YoloStart ==
    /\ ypc = "start"
    /\ IF ~labelsExists
       THEN ypc' = "returned" /\ UNCHANGED <<annotation_files, yidx>>
       ELSE \E listing \in Orderings({f \in DOMAIN labelFiles : EndsWith(f, DotTxt)}) :
                /\ annotation_files' = listing
                /\ IF listing = <<>>
                   THEN ypc' = "returned" /\ UNCHANGED yidx
                   ELSE ypc' = "loop" /\ yidx' = 1
    /\ UNCHANGED <<labelsExists, labelFiles, imageFiles, jsonFiles>>
    /\ UNCHANGED <<driverVars, pureVars>>

\* one iteration of the loop over annotation_files
YoloConvertFile ==
    /\ ypc = "loop" /\ yidx <= Len(annotation_files)
    /\ LET filename == annotation_files[yidx]
           base_name == SplitextBase(filename)
           image_name == base_name \o IMAGE_EXTENSION
           objects_list == ObjectsFrom(labelFiles[filename], 1, <<>>)
       IN  IF image_name \notin DOMAIN imageFiles
           THEN UNCHANGED jsonFiles
           ELSE IF ~imageFiles[image_name]
           THEN UNCHANGED jsonFiles
           ELSE IF objects_list = <<>>
           THEN UNCHANGED jsonFiles
           ELSE jsonFiles' = Put(jsonFiles, base_name \o DotJson,
                                 [name |-> base_name, objects |-> objects_list])
    /\ yidx' = yidx + 1
    /\ UNCHANGED <<ypc, labelsExists, labelFiles, imageFiles, annotation_files>>
    /\ UNCHANGED <<driverVars, pureVars>>

\* the loop is exhausted: the final print, and the function returns
YoloFinish ==
    /\ ypc = "loop" /\ yidx > Len(annotation_files)
    /\ ypc' = "returned"
    /\ UNCHANGED <<labelsExists, labelFiles, imageFiles, annotation_files, yidx,
                   jsonFiles>>
    /\ UNCHANGED <<driverVars, pureVars>>

InitYolo ==
    /\ DriverIdle /\ PureIdle
    /\ ypc = "start"
    /\ labelsExists \in BOOLEAN
    /\ labelFiles \in (IF labelsExists THEN LabelDirs ELSE {EmptyMap})
    /\ imageFiles \in ImageDirs
    /\ annotation_files = <<>> /\ yidx = 0
    /\ jsonFiles = EmptyMap

NextYolo == YoloStart \/ YoloConvertFile \/ YoloFinish

SpecYolo == InitYolo /\ [][NextYolo]_vars

\* the one-based positions of the lines of a file that are valid: exactly
\* five whitespace-separated fields, an integer class that CLASS_MAPPING
\* holds, four float coordinates
ValidPositions(lines) ==
    {i \in 1..Len(lines) :
        LET parts == Split(lines[i])
        IN  /\ Len(parts) = 5
            /\ ParsesAsInt(parts[1]) /\ IntValue(parts[1]) \in 1..9
            /\ ParsesAsFloat(parts[2]) /\ ParsesAsFloat(parts[3])
            /\ ParsesAsFloat(parts[4]) /\ ParsesAsFloat(parts[5])}

\* C10: when the function has returned, <base>.json has been written for an
\* annotation file <base>.txt exactly if the image <base>.jpg exists and
\* opens and the file has a valid line; the written file holds one object
\* per valid line, in file order, whose id is the zero-based position of the
\* line among all lines of the file, so the ids increase strictly; and
\* nothing else has been written.
C10_JsonPerValidFile ==
    ypc = "returned" /\ labelsExists =>
        /\ \A f \in DOMAIN labelFiles :
            EndsWith(f, DotTxt) =>
                LET base == SubSeq(f, 1, Len(f) - 4)
                    json == base \o DotJson
                    jpg == base \o <<46, 106, 112, 103>>
                    valid == ValidPositions(labelFiles[f])
                IN  /\ json \in DOMAIN jsonFiles <=>
                          /\ jpg \in DOMAIN imageFiles /\ imageFiles[jpg]
                          /\ valid # {}
                    /\ json \in DOMAIN jsonFiles =>
                        LET objs == jsonFiles[json].objects
                        IN  /\ Len(objs) = Cardinality(valid)
                            /\ {objs[k].id + 1 : k \in 1..Len(objs)} = valid
                            /\ \A k \in 1..(Len(objs) - 1) : objs[k].id < objs[k + 1].id
                            /\ \A k \in 1..Len(objs) :
                                objs[k].category =
                                    CLASS_MAPPING[IntValue(Split(labelFiles[f][objs[k].id + 1])[1])]
        /\ \A j \in DOMAIN jsonFiles :
            \E f \in DOMAIN labelFiles :
                EndsWith(f, DotTxt) /\ j = SubSeq(f, 1, Len(f) - 4) \o DotJson

\* C10 witness: "a.json" has been written from a file whose second line was
\* skipped, so that its ids are 0 and 2.
C10_Witness ==
    /\ ypc = "returned"
    /\ <<97>> \o DotJson \in DOMAIN jsonFiles
    /\ Len(jsonFiles[<<97>> \o DotJson].objects) = 2
    /\ jsonFiles[<<97>> \o DotJson].objects[1].id = 0
    /\ jsonFiles[<<97>> \o DotJson].objects[2].id = 2

====
